---------------------------- MODULE Spec2Model ----------------------------
(***************************************************************************)
(* Model of the sms-types crate: the delivery-report status taxonomy and   *)
(* its group reducer (src/src/sms.rs), the multipart header decoder        *)
(* (src/src/sms.rs) and the event-kind bit registry (src/src/events.rs).   *)
(*                                                                         *)
(* Every operation of the crate is a pure function.  Each subsystem has a  *)
(* specification of its own whose initial states draw the function's       *)
(* inputs and whose actions apply the functions:                           *)
(*   SpecStatus    - From<u8>, direct construction, to_status_group        *)
(*   SpecMultipart - TryFrom<Vec<u8>> for SmsMultipartHeader               *)
(*   SpecEvents    - EventKind::events_to_mask                             *)
(*   SpecKind      - From<&Event> for EventKind, EventKind::to_bit         *)
(***************************************************************************)
EXTENDS Integers, Sequences, FiniteSets

VARIABLES
    value,      \* sms.rs: the raw TP-Status byte handed to From<u8>
    status,     \* sms.rs: the SmsDeliveryReportStatus value held by the caller
    group,      \* sms.rs: the SmsDeliveryReportStatusGroup returned
    data,       \* sms.rs: the Vec<u8> handed to SmsMultipartHeader::try_from
    header,     \* sms.rs: the Result<SmsMultipartHeader, &str> returned
    events,     \* events.rs: the &[EventKind] handed to events_to_mask
    mask,       \* events.rs: the u8 mask returned
    event,      \* events.rs: the Event whose kind is taken
    kind,       \* events.rs: the EventKind of the event
    bit,        \* events.rs: the u8 returned by to_bit
    token,      \* events.rs: the &str handed to EventKind::try_from
    parsed,     \* events.rs: the Result<EventKind, String> returned
    source,     \* sms.rs: the outgoing or incoming message a record is made of
    first,      \* sms.rs: the SmsMessage before any with_message_id
    message,    \* sms.rs: the SmsMessage with_message_id is called on
    result,     \* sms.rs: the SmsMessage with_message_id returned
    last_id,    \* sms.rs: the id given to the last with_message_id
    calls,      \* sms.rs: how many times with_message_id was called
    fields,     \* gnss.rs: the Vec<&str> handed to PositionReport::try_from
    report,     \* gnss.rs: the outcome of PositionReport::try_from
    pc          \* position of the caller of the functions

vars ==
    <<value, status, group, data, header, events, mask, event, kind, bit,
      token, parsed, source, first, message, result, last_id, calls,
      fields, report, pc>>

statusVars == <<value, status, group>>
multipartVars == <<data, header>>
maskVars == <<events, mask>>
kindVars == <<event, kind, bit>>
parseVars == <<token, parsed>>
messageVars == <<source, first, message, result, last_id, calls>>
gnssVars == <<fields, report>>

\* The largest value of a u8.
U8Max == 255

Byte == 0..U8Max

\* A variable that holds no value yet: a record, a name (a number is 0).
None == [variant |-> "None"]

NoName == "none"

-----------------------------------------------------------------------------
(***************************************************************************)
(* SmsDeliveryReportStatus                                                 *)
(***************************************************************************)

\* The named variants of the enum with their explicit discriminants
\* (0x00-0x02, 0x20-0x25, 0x40-0x49, 0x60-0x65).
Discriminant ==
    [ ReceivedBySme                         |-> 0,    \* 0x00
      ForwardedButUnconfirmed               |-> 1,    \* 0x01
      ReplacedBySc                          |-> 2,    \* 0x02
      Congestion                            |-> 32,   \* 0x20
      SmeBusy                               |-> 33,   \* 0x21
      NoResponseFromSme                     |-> 34,   \* 0x22
      ServiceRejected                       |-> 35,   \* 0x23
      QualityOfServiceNotAvailable          |-> 36,   \* 0x24
      ErrorInSme                            |-> 37,   \* 0x25
      RemoteProcedureError                  |-> 64,   \* 0x40
      IncompatibleDestination               |-> 65,   \* 0x41
      ConnectionRejectedBySme               |-> 66,   \* 0x42
      NotObtainable                         |-> 67,   \* 0x43
      QualityOfServiceNotAvailablePermanent |-> 68,   \* 0x44
      NoInterworkingAvailable               |-> 69,   \* 0x45
      SmValidityPeriodExpired               |-> 70,   \* 0x46
      SmDeletedByOriginatingSme             |-> 71,   \* 0x47
      SmDeletedByScAdministration           |-> 72,   \* 0x48
      SmDoesNotExist                        |-> 73,   \* 0x49
      CongestionNoRetry                     |-> 96,   \* 0x60
      SmeBusyNoRetry                        |-> 97,   \* 0x61
      NoResponseFromSmeNoRetry              |-> 98,   \* 0x62
      ServiceRejectedNoRetry                |-> 99,   \* 0x63
      QualityOfServiceNotAvailableNoRetry   |-> 100,  \* 0x64
      ErrorInSmeNoRetry                     |-> 101 ] \* 0x65

NamedVariants == DOMAIN Discriminant

\* A named variant as a value: its name and its discriminant.
Named(n) == [variant |-> n, val |-> Discriminant[n]]

\* The fallback variant carrying the byte.
Unknown(v) == [variant |-> "Unknown", val |-> v]

\* Every value of the type SmsDeliveryReportStatus.
SmsDeliveryReportStatus ==
    {Named(n) : n \in NamedVariants} \cup {Unknown(v) : v \in Byte}

\* StatusFrom without the arm 0x65 => ErrorInSmeNoRetry.
StatusFromMissingArm(b) ==
    IF b # 101 /\ \E n \in NamedVariants : Discriminant[n] = b
    THEN Named(CHOOSE n \in NamedVariants : Discriminant[n] = b)
    ELSE Unknown(b)

\* impl From<u8> for SmsDeliveryReportStatus: the match on the byte.
StatusFrom(b) ==
    CASE b = 0   -> Named("ReceivedBySme")
      [] b = 1   -> Named("ForwardedButUnconfirmed")
      [] b = 2   -> Named("ReplacedBySc")
      [] b = 32  -> Named("Congestion")
      [] b = 33  -> Named("SmeBusy")
      [] b = 34  -> Named("NoResponseFromSme")
      [] b = 35  -> Named("ServiceRejected")
      [] b = 36  -> Named("QualityOfServiceNotAvailable")
      [] b = 37  -> Named("ErrorInSme")
      [] b = 64  -> Named("RemoteProcedureError")
      [] b = 65  -> Named("IncompatibleDestination")
      [] b = 66  -> Named("ConnectionRejectedBySme")
      [] b = 67  -> Named("NotObtainable")
      [] b = 68  -> Named("QualityOfServiceNotAvailablePermanent")
      [] b = 69  -> Named("NoInterworkingAvailable")
      [] b = 70  -> Named("SmValidityPeriodExpired")
      [] b = 71  -> Named("SmDeletedByOriginatingSme")
      [] b = 72  -> Named("SmDeletedByScAdministration")
      [] b = 73  -> Named("SmDoesNotExist")
      [] b = 96  -> Named("CongestionNoRetry")
      [] b = 97  -> Named("SmeBusyNoRetry")
      [] b = 98  -> Named("NoResponseFromSmeNoRetry")
      [] b = 99  -> Named("ServiceRejectedNoRetry")
      [] b = 100 -> Named("QualityOfServiceNotAvailableNoRetry")
      [] b = 101 -> Named("ErrorInSmeNoRetry")
      [] OTHER   -> Unknown(b)

\* matches!(self, Unknown(val) if *val >= lo && *val <= hi)
UnknownIn(s, lo, hi) == s.variant = "Unknown" /\ s.val >= lo /\ s.val <= hi

is_successful(s) ==
    s.variant \in {"ReceivedBySme", "ForwardedButUnconfirmed", "ReplacedBySc"}

\* is_temporary_retrying with the guard's upper end at 0x5F.
is_temporary_retrying_wide(s) ==
    \/ s.variant \in {"Congestion", "SmeBusy", "NoResponseFromSme",
                      "ServiceRejected", "QualityOfServiceNotAvailable",
                      "ErrorInSme"}
    \/ UnknownIn(s, 32, 95)

is_temporary_retrying(s) ==
    \/ s.variant \in {"Congestion", "SmeBusy", "NoResponseFromSme",
                      "ServiceRejected", "QualityOfServiceNotAvailable",
                      "ErrorInSme"}
    \/ UnknownIn(s, 32, 63)                                  \* 0x20..=0x3F

\* is_permanent_error with the guard's upper end at 0x7F.
is_permanent_error_wide(s) ==
    \/ s.variant \in {"RemoteProcedureError", "IncompatibleDestination",
                      "ConnectionRejectedBySme", "NotObtainable",
                      "QualityOfServiceNotAvailablePermanent",
                      "NoInterworkingAvailable", "SmValidityPeriodExpired",
                      "SmDeletedByOriginatingSme",
                      "SmDeletedByScAdministration", "SmDoesNotExist"}
    \/ UnknownIn(s, 64, 127)

is_permanent_error(s) ==
    \/ s.variant \in {"RemoteProcedureError", "IncompatibleDestination",
                      "ConnectionRejectedBySme", "NotObtainable",
                      "QualityOfServiceNotAvailablePermanent",
                      "NoInterworkingAvailable", "SmValidityPeriodExpired",
                      "SmDeletedByOriginatingSme",
                      "SmDeletedByScAdministration", "SmDoesNotExist"}
    \/ UnknownIn(s, 64, 95)                                  \* 0x40..=0x5F

\* is_temporary_no_retry with the guard's upper end at 0x80.
is_temporary_no_retry_off_by_one(s) ==
    \/ s.variant \in {"CongestionNoRetry", "SmeBusyNoRetry",
                      "NoResponseFromSmeNoRetry", "ServiceRejectedNoRetry",
                      "QualityOfServiceNotAvailableNoRetry",
                      "ErrorInSmeNoRetry"}
    \/ UnknownIn(s, 96, 128)

is_temporary_no_retry(s) ==
    \/ s.variant \in {"CongestionNoRetry", "SmeBusyNoRetry",
                      "NoResponseFromSmeNoRetry", "ServiceRejectedNoRetry",
                      "QualityOfServiceNotAvailableNoRetry",
                      "ErrorInSmeNoRetry"}
    \/ UnknownIn(s, 96, 127)                                 \* 0x60..=0x7F

\* The four values of SmsDeliveryReportStatusGroup.
SmsDeliveryReportStatusGroup ==
    {"Sent", "Received", "TemporaryFailure", "PermanentFailure"}

\* RangeFallback with TemporaryFailure as the default arm.
RangeFallbackTemporary(s) ==
    IF UnknownIn(s, 32, 63) THEN "Sent"
    ELSE IF UnknownIn(s, 64, 95) THEN "PermanentFailure"
    ELSE "TemporaryFailure"

\* The final match of to_status_group, reached when no predicate holds.
RangeFallback(s) ==
    IF UnknownIn(s, 32, 63) THEN "Sent"
    ELSE IF UnknownIn(s, 64, 95) THEN "PermanentFailure"
    ELSE IF UnknownIn(s, 96, 127) THEN "TemporaryFailure"
    ELSE "PermanentFailure"

to_status_group(s) ==
    IF is_successful(s) THEN "Received"
    ELSE IF is_temporary_retrying(s) THEN "Sent"
    ELSE IF is_permanent_error(s) \/ is_temporary_no_retry(s)
         THEN IF is_permanent_error(s) THEN "PermanentFailure"
              ELSE "TemporaryFailure"
    ELSE RangeFallback(s)

\* A four-way split of the retained byte: 0x00, 0x01..0x1F, 0x20..0x3F and
\* 0x40 and above.
GroupFromCoarse(s) ==
    IF s.val = 0 THEN "Received"
    ELSE IF s.val <= 31 THEN "Sent"
    ELSE IF s.val <= 63 THEN "Retrying"
    ELSE "Failed"

\* impl From<SmsDeliveryReportStatus> for SmsDeliveryReportStatusGroup
GroupFrom(s) == to_status_group(s)

\* The status caller has a byte and no status yet.
InitStatus ==
    /\ value \in Byte
    /\ status = None
    /\ group = NoName
    /\ pc = "byte"

\* SmsDeliveryReportStatus::from(value)
FromU8 ==
    /\ pc = "byte"
    /\ status' = StatusFrom(value)
    /\ pc' = "from"
    /\ UNCHANGED <<value, group, multipartVars, maskVars, kindVars, parseVars, messageVars, gnssVars>>

\* SmsDeliveryReportStatus::Unknown(value), built directly or deserialized:
\* the variant is public and the type derives Deserialize.
ConstructUnknown ==
    /\ pc = "byte"
    /\ status' = Unknown(value)
    /\ pc' = "direct"
    /\ UNCHANGED <<value, group, multipartVars, maskVars, kindVars, parseVars, messageVars, gnssVars>>

\* status.to_status_group()
ToStatusGroup ==
    /\ pc \in {"from", "direct"}
    /\ group' = to_status_group(status)
    /\ pc' = IF pc = "from" THEN "from_grouped" ELSE "direct_grouped"
    /\ UNCHANGED <<value, status, multipartVars, maskVars, kindVars, parseVars, messageVars, gnssVars>>

\* SmsDeliveryReportStatusGroup::from(status)
IntoGroup ==
    /\ pc \in {"from", "direct"}
    /\ group' = GroupFrom(status)
    /\ pc' = IF pc = "from" THEN "from_into" ELSE "direct_into"
    /\ UNCHANGED <<value, status, multipartVars, maskVars, kindVars, parseVars, messageVars, gnssVars>>

NextStatus ==
    \/ FromU8
    \/ ConstructUnknown
    \/ ToStatusGroup
    \/ IntoGroup

-----------------------------------------------------------------------------
(***************************************************************************)
(* SmsMultipartHeader                                                      *)
(***************************************************************************)

\* Longest Vec<u8> handed to the decoder.
MaxDataLen == 4

\* The bytes 0..MaxHeaderByte are drawn as user data, with 7 and 0xFF.
MaxHeaderByte == 3

HeaderBytes == (0..MaxHeaderByte) \cup {7, U8Max}

Ok(v) == [variant |-> "Ok", ok |-> v]

Err(e) == [variant |-> "Err", err |-> e]

\* The struct SmsMultipartHeader.
SmsMultipartHeader(r, t, i) == [message_reference |-> r, total |-> t, index |-> i]

\* MultipartTryFrom rejecting only the inputs that are too short.
MultipartTryFromAtLeast(d) ==
    IF Len(d) < 3
    THEN Err("Invalid user data length!")
    ELSE Ok(SmsMultipartHeader(d[1], d[2], d[3]))

\* impl TryFrom<Vec<u8>> for SmsMultipartHeader (data[0] is d[1] here).
MultipartTryFrom(d) ==
    IF Len(d) # 3
    THEN Err("Invalid user data length!")
    ELSE Ok(SmsMultipartHeader(d[1], d[2], d[3]))

\* The decoder's caller has the user data and no result yet.
InitMultipart ==
    /\ data \in UNION {[1..n -> HeaderBytes] : n \in 0..MaxDataLen}
    /\ header = None
    /\ pc = "data"

\* SmsMultipartHeader::try_from(data)
TryFromData ==
    /\ pc = "data"
    /\ header' = MultipartTryFrom(data)
    /\ pc' = "decoded"
    /\ UNCHANGED <<data, statusVars, maskVars, kindVars, parseVars, messageVars, gnssVars>>

NextMultipart == TryFromData

-----------------------------------------------------------------------------
(***************************************************************************)
(* EventKind                                                               *)
(***************************************************************************)

\* The enum's variants in declaration order.
EventKindDecl ==
    << "IncomingMessage", "OutgoingMessage", "DeliveryReport",
       "ModemStatusUpdate", "GNSSPositionReport", "WebsocketConnectionUpdate" >>

EventKind == {EventKindDecl[i] : i \in DOMAIN EventKindDecl}

\* a << n on a u8
Shl(a, n) == (a * 2^n) % (U8Max + 1)

\* a + b in place of a | b.
BitOrAsSum(a, b) == (a + b) % (U8Max + 1)

\* a | b on a u8
RECURSIVE BitOr(_, _)
BitOr(a, b) ==
    IF a = 0 THEN b
    ELSE IF b = 0 THEN a
    ELSE (IF a % 2 = 1 \/ b % 2 = 1 THEN 1 ELSE 0) + 2 * BitOr(a \div 2, b \div 2)

\* to_bit with the shift of ModemStatusUpdate repeated for GNSSPositionReport.
to_bit_repeated(k) ==
    CASE k = "IncomingMessage"           -> Shl(1, 0)
      [] k = "OutgoingMessage"           -> Shl(1, 1)
      [] k = "DeliveryReport"            -> Shl(1, 2)
      [] k = "ModemStatusUpdate"         -> Shl(1, 3)
      [] k = "GNSSPositionReport"        -> Shl(1, 3)
      [] k = "WebsocketConnectionUpdate" -> Shl(1, 5)

\* EventKind::to_bit
to_bit(k) ==
    CASE k = "IncomingMessage"           -> Shl(1, 0)
      [] k = "OutgoingMessage"           -> Shl(1, 1)
      [] k = "DeliveryReport"            -> Shl(1, 2)
      [] k = "ModemStatusUpdate"         -> Shl(1, 3)
      [] k = "GNSSPositionReport"        -> Shl(1, 4)
      [] k = "WebsocketConnectionUpdate" -> Shl(1, 5)

\* all_bits with the sixth kind's bit added.
all_bits_six ==
    BitOr(BitOr(BitOr(BitOr(BitOr(Shl(1, 0), Shl(1, 1)), Shl(1, 2)), Shl(1, 3)),
                Shl(1, 4)), Shl(1, 5))

\* EventKind::all_bits
all_bits ==
    BitOr(BitOr(BitOr(BitOr(Shl(1, 0), Shl(1, 1)), Shl(1, 2)), Shl(1, 3)), Shl(1, 4))

\* events.iter().fold(acc, |acc, event| acc | event.to_bit())
RECURSIVE Fold(_, _)
Fold(evs, acc) ==
    IF evs = << >> THEN acc
    ELSE Fold(Tail(evs), BitOr(acc, to_bit(Head(evs))))

\* events_to_mask with the fold started at 1.
events_to_mask_from_one(evs) == Fold(evs, 1)

\* EventKind::events_to_mask
events_to_mask(evs) == Fold(evs, 0)

\* Longest slice of kinds handed to events_to_mask.
MaxEvents == 5

\* The subscriber has a list of kinds and no mask yet.
InitEvents ==
    /\ events \in UNION {[1..n -> EventKind] : n \in 0..MaxEvents}
    /\ mask = 0
    /\ pc = "kinds"

\* EventKind::events_to_mask(&events)
EventsToMask ==
    /\ pc = "kinds"
    /\ mask' = events_to_mask(events)
    /\ pc' = "masked"
    /\ UNCHANGED <<events, statusVars, multipartVars, kindVars, parseVars, messageVars, gnssVars>>

NextEvents == EventsToMask

-----------------------------------------------------------------------------
(***************************************************************************)
(* Event and its payloads (all crate features enabled)                     *)
(***************************************************************************)

PhoneNumbers == {"+15550001", "ACME"}

Contents == {"", "hello"}

\* Option::None
NoneOpt == [variant |-> "None"]

\* Option::Some(v)
Some(v) == [variant |-> "Some", some |-> v]

\* The struct SmsMessage.
SmsMessage(id, pn, mc, mr, out, st, ca, co) ==
    [ message_id |-> id, phone_number |-> pn, message_content |-> mc,
      message_reference |-> mr, is_outgoing |-> out, status |-> st,
      created_at |-> ca, completed_at |-> co ]

\* Values of SmsOutgoingMessage.
SampleOutgoing ==
    [ phone_number : PhoneNumbers, content : Contents, flash : BOOLEAN,
      validity_period : {NoneOpt}, timeout : {NoneOpt} ]

\* Values of SmsIncomingMessage.
SampleIncoming ==
    [ phone_number : PhoneNumbers, user_data_header : {NoneOpt},
      content : Contents ]

\* impl From<&SmsOutgoingMessage> for SmsMessage
SmsMessageFromOutgoing(o) ==
    SmsMessage(NoneOpt, o.phone_number, o.content, NoneOpt, TRUE,
               NoneOpt, NoneOpt, NoneOpt)

\* SmsMessageFromIncoming with is_outgoing as in the outgoing conversion.
SmsMessageFromIncomingAsOutgoing(i) ==
    SmsMessage(NoneOpt, i.phone_number, i.content, NoneOpt, TRUE,
               NoneOpt, NoneOpt, NoneOpt)

\* impl From<&SmsIncomingMessage> for SmsMessage
SmsMessageFromIncoming(i) ==
    SmsMessage(NoneOpt, i.phone_number, i.content, NoneOpt, FALSE,
               NoneOpt, NoneOpt, NoneOpt)

SampleMessages ==
    {SmsMessageFromOutgoing(o) : o \in SampleOutgoing}
        \cup {SmsMessageFromIncoming(i) : i \in SampleIncoming}

\* Values of SmsPartialDeliveryReport.
SampleReports ==
    [ phone_number : PhoneNumbers, reference_id : {0, U8Max},
      status : {StatusFrom(0), StatusFrom(36), StatusFrom(144)} ]

\* The enum ModemStatusUpdateState.
ModemStatusUpdateState == {"Startup", "Online", "ShuttingDown", "Offline"}

\* Values of PositionReport: a receiver with no fix data.
SamplePositions ==
    [ run_status : BOOLEAN, fix_status : BOOLEAN, utc_time : {""},
      latitude : {NoneOpt}, longitude : {NoneOpt}, msl_altitude : {NoneOpt},
      ground_speed : {NoneOpt}, ground_course : {NoneOpt},
      fix_mode : {"NotFix"}, hdop : {NoneOpt}, pdop : {NoneOpt},
      vdop : {NoneOpt}, gps_in_view : {NoneOpt}, gnss_used : {NoneOpt},
      glonass_in_view : {NoneOpt} ]

\* Values of the enum Event, tagged by variant.
Event ==
    [variant : {"IncomingMessage"}, msg : SampleMessages]
    \cup [variant : {"OutgoingMessage"}, msg : SampleMessages]
    \cup [variant : {"DeliveryReport"}, message_id : {1, 2}, report : SampleReports]
    \cup [variant : {"ModemStatusUpdate"}, previous : ModemStatusUpdateState,
          current : ModemStatusUpdateState]
    \cup [variant : {"WebsocketConnectionUpdate"}, connected : BOOLEAN,
          reconnect : BOOLEAN]
    \cup [variant : {"GnssPositionReport"}, report : SamplePositions]

\* EventKindFrom with the arm of OutgoingMessage repeated for DeliveryReport.
EventKindFromRepeated(e) ==
    CASE e.variant = "IncomingMessage"           -> "IncomingMessage"
      [] e.variant = "OutgoingMessage"           -> "OutgoingMessage"
      [] e.variant = "DeliveryReport"            -> "OutgoingMessage"
      [] e.variant = "ModemStatusUpdate"         -> "ModemStatusUpdate"
      [] e.variant = "WebsocketConnectionUpdate" -> "WebsocketConnectionUpdate"
      [] e.variant = "GnssPositionReport"        -> "GNSSPositionReport"

\* impl From<&Event> for EventKind
EventKindFrom(e) ==
    CASE e.variant = "IncomingMessage"           -> "IncomingMessage"
      [] e.variant = "OutgoingMessage"           -> "OutgoingMessage"
      [] e.variant = "DeliveryReport"            -> "DeliveryReport"
      [] e.variant = "ModemStatusUpdate"         -> "ModemStatusUpdate"
      [] e.variant = "WebsocketConnectionUpdate" -> "WebsocketConnectionUpdate"
      [] e.variant = "GnssPositionReport"        -> "GNSSPositionReport"

\* An event has been built; its kind has not been taken.
InitKind ==
    /\ event \in Event
    /\ kind = NoName
    /\ bit = 0
    /\ pc = "event"

\* EventKind::from(&event)
KindFromEvent ==
    /\ pc = "event"
    /\ kind' = EventKindFrom(event)
    /\ pc' = "kind"
    /\ UNCHANGED <<event, bit, statusVars, multipartVars, maskVars, parseVars, messageVars, gnssVars>>

\* kind.to_bit()
ToBit ==
    /\ pc = "kind"
    /\ bit' = to_bit(kind)
    /\ pc' = "bit"
    /\ UNCHANGED <<event, kind, statusVars, multipartVars, maskVars, parseVars, messageVars, gnssVars>>

NextKind ==
    \/ KindFromEvent
    \/ ToBit

-----------------------------------------------------------------------------
(***************************************************************************)
(* EventKind from text                                                     *)
(***************************************************************************)

\* #[serde(rename = "...")] of each variant of EventKind.
SerdeTag(k) ==
    CASE k = "IncomingMessage"           -> "incoming"
      [] k = "OutgoingMessage"           -> "outgoing"
      [] k = "DeliveryReport"            -> "delivery"
      [] k = "ModemStatusUpdate"         -> "modem_status_update"
      [] k = "GNSSPositionReport"        -> "gnss_position_report"
      [] k = "WebsocketConnectionUpdate" -> "websocket_connection_update"

\* EventKindTryFrom with an error message that leaves the input out.
EventKindTryFromNoValue(v) ==
    CASE v = "incoming"                     -> Ok("IncomingMessage")
      [] v = "outgoing"                     -> Ok("OutgoingMessage")
      [] v = "delivery"                     -> Ok("DeliveryReport")
      [] v = "modem_status_update"          -> Ok("ModemStatusUpdate")
      [] v = "websocket_connection_upgrade" -> Ok("WebsocketConnectionUpdate")
      [] v = "gnss_position_report"         -> Ok("GNSSPositionReport")
      [] OTHER                              -> Err("Unknown event type")

\* EventKindTryFrom with the serde tag as the websocket token.
EventKindTryFromSerdeTag(v) ==
    CASE v = "incoming"                     -> Ok("IncomingMessage")
      [] v = "outgoing"                     -> Ok("OutgoingMessage")
      [] v = "delivery"                     -> Ok("DeliveryReport")
      [] v = "modem_status_update"          -> Ok("ModemStatusUpdate")
      [] v = "websocket_connection_update"  -> Ok("WebsocketConnectionUpdate")
      [] v = "gnss_position_report"         -> Ok("GNSSPositionReport")
      [] OTHER                              -> Err("Unknown event type " \o v)

\* impl TryFrom<&str> for EventKind; format! is the concatenation.
EventKindTryFrom(v) ==
    CASE v = "incoming"                     -> Ok("IncomingMessage")
      [] v = "outgoing"                     -> Ok("OutgoingMessage")
      [] v = "delivery"                     -> Ok("DeliveryReport")
      [] v = "modem_status_update"          -> Ok("ModemStatusUpdate")
      [] v = "websocket_connection_upgrade" -> Ok("WebsocketConnectionUpdate")
      [] v = "gnss_position_report"         -> Ok("GNSSPositionReport")
      [] OTHER                              -> Err("Unknown event type " \o v)

\* Texts handed to the parser: the tokens of the match, the serde tags,
\* their upper-case and capitalised forms, the variants' names, and others.
TokenTexts ==
    { "incoming", "outgoing", "delivery", "modem_status_update",
      "websocket_connection_upgrade", "gnss_position_report",
      "websocket_connection_update",
      "INCOMING", "OUTGOING", "DELIVERY", "MODEM_STATUS_UPDATE",
      "WEBSOCKET_CONNECTION_UPGRADE", "GNSS_POSITION_REPORT",
      "Incoming", "Outgoing", "Delivery", "Modem_status_update",
      "Websocket_connection_upgrade", "Gnss_position_report",
      "IncomingMessage", "OutgoingMessage", "DeliveryReport",
      "ModemStatusUpdate", "GNSSPositionReport", "WebsocketConnectionUpdate",
      "bogus", "" }

\* Padding written before and after a text.
TokenPads == {"", " "}

\* The configuration has a text and it is not parsed yet.
InitParse ==
    /\ token \in {l \o x \o r : l \in TokenPads, x \in TokenTexts, r \in TokenPads}
    /\ parsed = None
    /\ pc = "token"

\* EventKind::try_from(token)
TryFromStr ==
    /\ pc = "token"
    /\ parsed' = EventKindTryFrom(token)
    /\ pc' = "parsed"
    /\ UNCHANGED <<token, statusVars, multipartVars, maskVars, kindVars, messageVars, gnssVars>>

NextParse == TryFromStr

-----------------------------------------------------------------------------
(***************************************************************************)
(* SmsMessage: construction and with_message_id                            *)
(***************************************************************************)

\* Largest identifier handed to with_message_id.
MaxMessageId == 2

\* Most calls of with_message_id on one record.
MaxCalls == 2

\* Values of the Option<i64> handed to with_message_id.
MessageIds == {NoneOpt} \cup {Some(i) : i \in 1..MaxMessageId}

\* Values of SmsMessage as the database holds them (the type derives
\* Deserialize and its fields are public).
SampleStored ==
    [ message_id : {NoneOpt, Some(1)}, phone_number : PhoneNumbers,
      message_content : {"hello"}, message_reference : {Some(7)},
      is_outgoing : BOOLEAN, status : {NoneOpt, Some(StatusFrom(0))},
      created_at : {Some(1700000000)},
      completed_at : {NoneOpt, Some(1700000060)} ]

\* with_message_id that leaves completed_at out of the copy.
with_message_id_partial(self, id) ==
    [self EXCEPT !.message_id = id, !.completed_at = NoneOpt]

\* SmsMessage::with_message_id: Self { message_id: id, ..self.clone() }
with_message_id(self, id) == [self EXCEPT !.message_id = id]

\* A caller holds an outgoing or an incoming message, or a stored record.
InitMessage ==
    /\ \/ /\ source \in [variant : {"Outgoing"}, msg : SampleOutgoing]
                          \cup [variant : {"Incoming"}, msg : SampleIncoming]
          /\ message = None
          /\ pc = "source"
       \/ /\ source = None
          /\ message \in SampleStored
          /\ pc = "message"
    /\ first = message
    /\ result = None
    /\ last_id = None
    /\ calls = 0

\* SmsMessage::from(&outgoing)
FromOutgoing ==
    /\ pc = "source"
    /\ source.variant = "Outgoing"
    /\ message' = SmsMessageFromOutgoing(source.msg)
    /\ first' = message'
    /\ pc' = "message"
    /\ UNCHANGED <<source, result, last_id, calls, statusVars, multipartVars,
                   maskVars, kindVars, parseVars, gnssVars>>

\* SmsMessage::from(&incoming)
FromIncoming ==
    /\ pc = "source"
    /\ source.variant = "Incoming"
    /\ message' = SmsMessageFromIncoming(source.msg)
    /\ first' = message'
    /\ pc' = "message"
    /\ UNCHANGED <<source, result, last_id, calls, statusVars, multipartVars,
                   maskVars, kindVars, parseVars, gnssVars>>

\* self.with_message_id(id), on the record held or on the one the last call
\* returned; self is borrowed and stays as it is.
WithMessageId ==
    \E id \in MessageIds :
        /\ pc \in {"message", "replaced"}
        /\ calls < MaxCalls
        /\ message' = (IF pc = "message" THEN message ELSE result)
        /\ result' = with_message_id(message', id)
        /\ last_id' = id
        /\ calls' = calls + 1
        /\ pc' = "replaced"
        /\ UNCHANGED <<source, first, statusVars, multipartVars, maskVars,
                       kindVars, parseVars, gnssVars>>

NextMessage ==
    \/ FromOutgoing
    \/ FromIncoming
    \/ WithMessageId

-----------------------------------------------------------------------------
(***************************************************************************)
(* PositionReport                                                          *)
(***************************************************************************)

\* Longest list of fields handed to PositionReport::try_from.
MaxFields == 18

\* A report of the receiver, field by field (from index 0): run status,
\* fix status, time, latitude, longitude, altitude, speed, course, fix
\* mode, reserved, HDOP, PDOP, VDOP, reserved, satellites in view, used,
\* GLONASS in view; further fields are empty.
ReportFields ==
    << "1", "1", "20240101120000.000", "51.5", "-0.12", "35.0", "0.0",
       "90.0", "1", "", "1.0", "1.2", "0.8", "", "9", "7", "3" >>

ReportField(i) == IF i <= Len(ReportFields) THEN ReportFields[i] ELSE ""

\* Texts written over one field of the report.
OtherTexts == {"", "x", "0", "2", "256"}

\* str::parse::<f64>().ok() and str::parse::<f32>().ok() on the texts drawn:
\* the number as mantissa m and decimal exponent e (m / 10^e).
ParseFloat(s) ==
    CASE s = "51.5"  -> Some([m |-> 515, e |-> 1])
      [] s = "-0.12" -> Some([m |-> -12, e |-> 2])
      [] s = "35.0"  -> Some([m |-> 35, e |-> 0])
      [] s = "0.0"   -> Some([m |-> 0, e |-> 0])
      [] s = "90.0"  -> Some([m |-> 90, e |-> 0])
      [] s = "1.0"   -> Some([m |-> 1, e |-> 0])
      [] s = "1.2"   -> Some([m |-> 12, e |-> 1])
      [] s = "0.8"   -> Some([m |-> 8, e |-> 1])
      [] s = "0"     -> Some([m |-> 0, e |-> 0])
      [] s = "1"     -> Some([m |-> 1, e |-> 0])
      [] s = "2"     -> Some([m |-> 2, e |-> 0])
      [] s = "3"     -> Some([m |-> 3, e |-> 0])
      [] s = "7"     -> Some([m |-> 7, e |-> 0])
      [] s = "9"     -> Some([m |-> 9, e |-> 0])
      [] s = "256"   -> Some([m |-> 256, e |-> 0])
      [] OTHER       -> NoneOpt

\* str::parse::<u8>().ok() on the texts drawn.
ParseU8(s) ==
    CASE s = "0" -> Some(0)
      [] s = "1" -> Some(1)
      [] s = "2" -> Some(2)
      [] s = "3" -> Some(3)
      [] s = "7" -> Some(7)
      [] s = "9" -> Some(9)
      [] OTHER   -> NoneOpt

\* Option::unwrap_or
UnwrapOr(o, d) == IF o.variant = "Some" THEN o.some ELSE d

\* impl From<u8> for FixStatus
FixStatusFrom(v) ==
    CASE v = 0 -> "NotFix"
      [] v = 1 -> "Fix2D"
      [] v = 2 -> "Fix3D"
      [] OTHER -> "Unknown"

\* usize as format! writes it, for the lengths the check refuses.
Decimal(n) ==
    << "0", "1", "2", "3", "4", "5", "6", "7", "8", "9", "10", "11", "12",
       "13", "14" >>[n + 1]

\* The indexes try_from reads, in the order of the struct expression.
ReadIndexes == (0..8) \cup (10..12) \cup (14..16)

\* fields[i] of a Vec: index i from 0.
At(f, i) == f[i + 1]

\* The panic of an index past the end of the Vec.
IndexPanic(i, n) == [variant |-> "Panic", index |-> i, len |-> n]

\* impl TryFrom<Vec<&str>> for PositionReport: the length check, then the
\* reads in order; the first index past the end aborts.
PositionTryFrom(f) ==
    IF Len(f) < 15
    THEN Err("Insufficient GNSS data fields got " \o Decimal(Len(f)))
    ELSE LET past == {i \in ReadIndexes : i >= Len(f)}
         IN  IF past # {}
             THEN IndexPanic(CHOOSE i \in past : \A j \in past : i <= j, Len(f))
             ELSE Ok([ run_status      |-> At(f, 0) = "1",
                       fix_status      |-> At(f, 1) = "1",
                       utc_time        |-> At(f, 2),
                       latitude        |-> ParseFloat(At(f, 3)),
                       longitude       |-> ParseFloat(At(f, 4)),
                       msl_altitude    |-> ParseFloat(At(f, 5)),
                       ground_speed    |-> ParseFloat(At(f, 6)),
                       ground_course   |-> ParseFloat(At(f, 7)),
                       fix_mode        |-> FixStatusFrom(UnwrapOr(ParseU8(At(f, 8)), 0)),
                       hdop            |-> ParseFloat(At(f, 10)),
                       pdop            |-> ParseFloat(At(f, 11)),
                       vdop            |-> ParseFloat(At(f, 12)),
                       gps_in_view     |-> ParseU8(At(f, 14)),
                       gnss_used       |-> ParseU8(At(f, 15)),
                       glonass_in_view |-> ParseU8(At(f, 16)) ])

\* The lists of fields drawn: the report cut or filled to n fields, as it
\* is or with one field written over.
FieldLists ==
    LET cut(n) == [i \in 1..n |-> ReportField(i)]
    IN  {cut(n) : n \in 0..MaxFields}
            \cup UNION {{[cut(n) EXCEPT ![k] = x] : k \in 1..n, x \in OtherTexts}
                          : n \in 0..MaxFields}

\* The modem driver has split a line into fields.
InitGnss ==
    /\ fields \in FieldLists
    /\ report = None
    /\ pc = "fields"

\* PositionReport::try_from(fields)
TryFromFields ==
    /\ pc = "fields"
    /\ report' = PositionTryFrom(fields)
    /\ pc' = "reported"
    /\ UNCHANGED <<fields, statusVars, multipartVars, maskVars, kindVars,
                   parseVars, messageVars>>

NextGnss == TryFromFields

-----------------------------------------------------------------------------
(***************************************************************************)
(* Specifications: one per subsystem; the other subsystems stay idle.      *)
(***************************************************************************)

IdleStatus == value = 0 /\ status = None /\ group = NoName

IdleMultipart == data = << >> /\ header = None

IdleEvents == events = << >> /\ mask = 0

IdleKind == event = None /\ kind = NoName /\ bit = 0

IdleParse == token = "" /\ parsed = None

IdleMessage ==
    /\ source = None
    /\ first = None
    /\ message = None
    /\ result = None
    /\ last_id = None
    /\ calls = 0

IdleGnss == fields = << >> /\ report = None

IdleLater == IdleParse /\ IdleMessage /\ IdleGnss

StatusInit == InitStatus /\ IdleMultipart /\ IdleEvents /\ IdleKind /\ IdleLater

MultipartInit == InitMultipart /\ IdleStatus /\ IdleEvents /\ IdleKind /\ IdleLater

EventsInit == InitEvents /\ IdleStatus /\ IdleMultipart /\ IdleKind /\ IdleLater

KindInit == InitKind /\ IdleStatus /\ IdleMultipart /\ IdleEvents /\ IdleLater

SpecStatus == StatusInit /\ [][NextStatus]_vars

SpecMultipart == MultipartInit /\ [][NextMultipart]_vars

SpecEvents == EventsInit /\ [][NextEvents]_vars

SpecKind == KindInit /\ [][NextKind]_vars

ParseInit ==
    /\ InitParse /\ IdleStatus /\ IdleMultipart /\ IdleEvents /\ IdleKind
    /\ IdleMessage /\ IdleGnss

SpecParse == ParseInit /\ [][NextParse]_vars

MessageInit ==
    /\ InitMessage /\ IdleStatus /\ IdleMultipart /\ IdleEvents /\ IdleKind
    /\ IdleParse /\ IdleGnss

SpecMessage == MessageInit /\ [][NextMessage]_vars

GnssInit ==
    /\ InitGnss /\ IdleStatus /\ IdleMultipart /\ IdleEvents /\ IdleKind
    /\ IdleParse /\ IdleMessage

SpecGnss == GnssInit /\ [][NextGnss]_vars

-----------------------------------------------------------------------------
(***************************************************************************)
(* Properties of the status taxonomy and the group reducer (SpecStatus)    *)
(***************************************************************************)

\* The status was made by From<u8> from the byte in value.
FromByte == pc \in {"from", "from_grouped"}

\* The status is held, however it was made.
HasStatus == pc \in {"from", "direct", "from_grouped", "direct_grouped"}

\* to_status_group has returned.
Grouped == pc \in {"from_grouped", "direct_grouped"}

\* The bytes that have a named variant:
\* 0x00..0x02, 0x20..0x25, 0x40..0x49, 0x60..0x65.
NamedBytes == (0..2) \cup (32..37) \cup (64..73) \cup (96..101)

\* C1: From<u8> is total: for a byte with a named variant it returns the
\* named variant whose discriminant is the byte, and for every other byte
\* it returns Unknown carrying exactly that byte.
C1_FromU8Total ==
    FromByte =>
        /\ status \in SmsDeliveryReportStatus
        /\ IF value \in NamedBytes
           THEN /\ status.variant \in NamedVariants
                /\ Discriminant[status.variant] = value
                /\ status.val = value
           ELSE status = [variant |-> "Unknown", val |-> value]

\* C1 witness: the byte 0x26, the first past the named retry codes, became
\* Unknown(0x26).
C1_Witness ==
    /\ pc = "from"
    /\ value = 38
    /\ status = [variant |-> "Unknown", val |-> 38]

\* The group the range table gives a byte; 0x03..0x1F is not in the table
\* of the claim.
TableGroup(b) ==
    CASE b \in 0..2     -> {"Received"}
      [] b \in 32..63   -> {"Sent"}
      [] b \in 64..95   -> {"PermanentFailure"}
      [] b \in 96..127  -> {"TemporaryFailure"}
      [] b \in 128..255 -> {"PermanentFailure"}
      [] OTHER          -> SmsDeliveryReportStatusGroup

\* C2: for every byte, from(b).to_status_group() is one of the four groups
\* and follows the range table: Received 0x00..0x02, Sent 0x20..0x3F,
\* PermanentFailure 0x40..0x5F, TemporaryFailure 0x60..0x7F,
\* PermanentFailure 0x80..0xFF.
C2_GroupFollowsTable ==
    pc = "from_grouped" =>
        /\ group \in SmsDeliveryReportStatusGroup
        /\ group \in TableGroup(value)

\* C2 witness: the byte 0x90 was classified and grouped as PermanentFailure.
C2_Witness ==
    /\ pc = "from_grouped"
    /\ value = 144
    /\ status.variant = "Unknown"
    /\ group = "PermanentFailure"

\* The last byte of each range of the table: 0x1F, 0x3F, 0x5F, 0x7F.
BoundaryLow == {31, 63, 95, 127}

\* C3: at every range boundary (0x1F/0x20, 0x3F/0x40, 0x5F/0x60, 0x7F/0x80)
\* the two adjacent bytes land in different groups.
C3_BoundaryExact ==
    (pc = "from_grouped" /\ value \in BoundaryLow) =>
        group # to_status_group(StatusFrom(value + 1))

\* C3 witness: the byte 0x7F was grouped as TemporaryFailure, and 0x80 is
\* grouped as PermanentFailure.
C3_Witness ==
    /\ pc = "from_grouped"
    /\ value = 127
    /\ group = "TemporaryFailure"
    /\ to_status_group(StatusFrom(128)) = "PermanentFailure"

\* How many of the four predicates hold of a status.
TruePredicates(s) ==
    (IF is_successful(s) THEN 1 ELSE 0)
        + (IF is_temporary_retrying(s) THEN 1 ELSE 0)
        + (IF is_permanent_error(s) THEN 1 ELSE 0)
        + (IF is_temporary_no_retry(s) THEN 1 ELSE 0)

\* C4: the four predicates are mutually exclusive on every status value;
\* exactly one holds of every named variant and of every Unknown(v) with v
\* in 0x20..0x7F.
C4_PredicatesExclusive ==
    HasStatus =>
        /\ TruePredicates(status) <= 1
        /\ (status.variant \in NamedVariants
              \/ (status.variant = "Unknown" /\ status.val \in 32..127))
            => TruePredicates(status) = 1

\* C4 witness: Unknown(0x64), built directly with the code of a named
\* variant, satisfies is_temporary_no_retry and nothing else.
C4_Witness ==
    /\ pc = "direct"
    /\ status = [variant |-> "Unknown", val |-> 100]
    /\ is_temporary_no_retry(status)
    /\ TruePredicates(status) = 1

PredicateNames ==
    {"is_successful", "is_temporary_retrying", "is_permanent_error",
     "is_temporary_no_retry"}

\* Whether the named predicate holds of a status.
Holds(n, s) ==
    CASE n = "is_successful"         -> is_successful(s)
      [] n = "is_temporary_retrying" -> is_temporary_retrying(s)
      [] n = "is_permanent_error"    -> is_permanent_error(s)
      [] n = "is_temporary_no_retry" -> is_temporary_no_retry(s)

\* The group that stands for the named predicate.
GroupOf(n) ==
    CASE n = "is_successful"         -> "Received"
      [] n = "is_temporary_retrying" -> "Sent"
      [] n = "is_permanent_error"    -> "PermanentFailure"
      [] n = "is_temporary_no_retry" -> "TemporaryFailure"

\* The numeric-range fallback with its default, as documented.
DocumentedFallback(s) ==
    IF s.variant = "Unknown" /\ s.val \in 32..63 THEN "Sent"
    ELSE IF s.variant = "Unknown" /\ s.val \in 64..95 THEN "PermanentFailure"
    ELSE IF s.variant = "Unknown" /\ s.val \in 96..127 THEN "TemporaryFailure"
    ELSE "PermanentFailure"

\* The group found by checking the predicates in the order o.
GroupInOrder(s, o) ==
    LET hit == {i \in DOMAIN o : Holds(o[i], s)}
    IN  IF hit = {} THEN DocumentedFallback(s)
        ELSE GroupOf(o[CHOOSE i \in hit : \A j \in hit : i <= j])

\* success, temporary-retrying, permanent-error, temporary-no-retry
DocumentedOrder ==
    << "is_successful", "is_temporary_retrying", "is_permanent_error",
       "is_temporary_no_retry" >>

\* Every order of checking the four predicates.
AllOrders ==
    {o \in [1..4 -> PredicateNames] : \A i, j \in 1..4 : o[i] = o[j] => i = j}

\* C5: to_status_group agrees with the predicates in the documented
\* priority order, ending in the numeric-range fallback with default
\* PermanentFailure, and the group is the same under any other order of
\* checking the four predicates.
C5_GroupAgreesInAnyOrder ==
    Grouped =>
        /\ group = GroupInOrder(status, DocumentedOrder)
        /\ \A o \in AllOrders : group = GroupInOrder(status, o)

\* C5 witness: Unknown(0x4A) was grouped as PermanentFailure, the group of
\* the one predicate that holds of it.
C5_Witness ==
    /\ pc = "from_grouped"
    /\ status = [variant |-> "Unknown", val |-> 74]
    /\ is_permanent_error(status)
    /\ group = "PermanentFailure"

-----------------------------------------------------------------------------
(***************************************************************************)
(* Properties of the multipart header decoder (SpecMultipart)              *)
(***************************************************************************)

\* C6: try_from fails closed: it returns Ok exactly when the data has
\* length 3 and the invalid-length error for every other length; on
\* success message_reference = data[0], total = data[1], index = data[2]
\* with no further validation.
C6_MultipartFailsClosed ==
    pc = "decoded" =>
        /\ header.variant \in {"Ok", "Err"}
        /\ header.variant = "Ok" <=> Len(data) = 3
        /\ Len(data) # 3 =>
              header = [variant |-> "Err", err |-> "Invalid user data length!"]
        /\ Len(data) = 3 =>
              header = [variant |-> "Ok",
                        ok |-> [message_reference |-> data[1],
                                total |-> data[2], index |-> data[3]]]

\* C6 witness: [7, 0, 3] was decoded unchanged although total is 0 and
\* index exceeds total.
C6_Witness ==
    /\ pc = "decoded"
    /\ data = <<7, 0, 3>>
    /\ header.variant = "Ok"
    /\ header.ok.message_reference = 7
    /\ header.ok.total = 0
    /\ header.ok.index = 3

-----------------------------------------------------------------------------
(***************************************************************************)
(* Properties of the event-kind registry (SpecKind, SpecEvents)            *)
(***************************************************************************)

\* a & b on a u8, as the claims about masks use it
RECURSIVE BitAnd(_, _)
BitAnd(a, b) ==
    IF a = 0 \/ b = 0 THEN 0
    ELSE (IF a % 2 = 1 /\ b % 2 = 1 THEN 1 ELSE 0) + 2 * BitAnd(a \div 2, b \div 2)

\* C7: to_bit is total and injective: each of the six kinds maps to a
\* distinct single-bit value, and the kind at declaration position i
\* (from 0) maps to 1 << i.
C7_ToBitInjective ==
    pc = "bit" =>
        /\ kind \in EventKind
        /\ bit \in Byte
        /\ \E i \in DOMAIN EventKindDecl : EventKindDecl[i] = kind /\ bit = 2^(i - 1)
        /\ \A k \in EventKind : to_bit(k) = bit => k = kind

\* C7 witness: GNSSPositionReport, the fifth kind declared, gave bit 16.
C7_Witness ==
    /\ pc = "bit"
    /\ kind = "GNSSPositionReport"
    /\ bit = 16

\* The kinds the server emits.
ServerKinds ==
    {"IncomingMessage", "OutgoingMessage", "DeliveryReport",
     "ModemStatusUpdate", "GNSSPositionReport"}

\* The kinds that occur in a sequence.
KindsOf(evs) == {evs[i] : i \in DOMAIN evs}

\* C8: all_bits() equals events_to_mask of the five server-emittable kinds
\* and excludes the client-local kind:
\* all_bits() & WebsocketConnectionUpdate.to_bit() = 0.
C8_AllBitsServerOnly ==
    (pc = "masked" /\ KindsOf(events) = ServerKinds) =>
        /\ mask = all_bits
        /\ BitAnd(all_bits, to_bit("WebsocketConnectionUpdate")) = 0

\* C8 witness: the five server kinds in declaration order were folded to
\* 0b11111.
C8_Witness ==
    /\ pc = "masked"
    /\ events = << "IncomingMessage", "OutgoingMessage", "DeliveryReport",
                   "ModemStatusUpdate", "GNSSPositionReport" >>
    /\ mask = 31

\* The sequence without its i-th element.
RemoveAt(evs, i) == SubSeq(evs, 1, i - 1) \o SubSeq(evs, i + 1, Len(evs))

\* The positions that repeat a kind found elsewhere in the sequence.
Repeats(evs) ==
    {i \in DOMAIN evs : \E j \in DOMAIN evs : j # i /\ evs[j] = evs[i]}

\* C9: mask folding is idempotent under duplicates: a repeated occurrence
\* of a kind already in the sequence leaves events_to_mask unchanged.
C9_MaskIdempotent ==
    pc = "masked" =>
        \A i \in Repeats(events) : events_to_mask(RemoveAt(events, i)) = mask

\* C9 witness: [DeliveryReport, DeliveryReport, IncomingMessage] was folded
\* to the mask of [DeliveryReport, IncomingMessage].
C9_Witness ==
    /\ pc = "masked"
    /\ events = << "DeliveryReport", "DeliveryReport", "IncomingMessage" >>
    /\ mask = 5

\* The sequence with its elements i and i + 1 exchanged.
SwapAt(evs, i) ==
    [j \in DOMAIN evs |->
        IF j = i THEN evs[i + 1] ELSE IF j = i + 1 THEN evs[i] ELSE evs[j]]

\* C10: events_to_mask is the set union of the kinds' bits: the bit of a
\* kind is set in the mask exactly when the kind occurs in the sequence;
\* hence the empty sequence gives 0, the order of the sequence does not
\* matter, and no bit above bit 5 is set.
C10_MaskIsUnion ==
    pc = "masked" =>
        /\ \A k \in EventKind :
              BitAnd(mask, to_bit(k)) # 0 <=> k \in KindsOf(events)
        /\ events = << >> => mask = 0
        /\ \A i \in 1..(Len(events) - 1) : events_to_mask(SwapAt(events, i)) = mask
        /\ mask < 2^6

\* C10 witness: [WebsocketConnectionUpdate, IncomingMessage] was folded to
\* bits 5 and 0.
C10_Witness ==
    /\ pc = "masked"
    /\ events = << "WebsocketConnectionUpdate", "IncomingMessage" >>
    /\ mask = 33

-----------------------------------------------------------------------------
(***************************************************************************)
(* Properties of the event-kind parser (SpecParse)                         *)
(***************************************************************************)

\* The token table: each token and the kind it stands for.
TokenTable ==
    [ incoming                     |-> "IncomingMessage",
      outgoing                     |-> "OutgoingMessage",
      delivery                     |-> "DeliveryReport",
      modem_status_update          |-> "ModemStatusUpdate",
      gnss_position_report         |-> "GNSSPositionReport",
      websocket_connection_upgrade |-> "WebsocketConnectionUpdate" ]

\* C11: try_from(&str) is a case-sensitive exact match against a table of
\* six tokens, each standing for a distinct kind; every other string, also
\* a case variant or a padded form of a token, returns Err whose message
\* contains the offending text.
C11_ParseExactMatch ==
    pc = "parsed" =>
        /\ Cardinality({TokenTable[x] : x \in DOMAIN TokenTable}) = 6
        /\ IF token \in DOMAIN TokenTable
           THEN parsed = [variant |-> "Ok", ok |-> TokenTable[token]]
           ELSE parsed = [variant |-> "Err",
                          err |-> "Unknown event type " \o token]
        /\ token = "delivery" => parsed = [variant |-> "Ok", ok |-> "DeliveryReport"]
        /\ token = "bogus" =>
              parsed = [variant |-> "Err", err |-> "Unknown event type bogus"]

\* C11 witness: " Delivery", a padded case variant of a token, was refused
\* with a message naming it.
C11_Witness ==
    /\ pc = "parsed"
    /\ token = " Delivery"
    /\ parsed = [variant |-> "Err", err |-> "Unknown event type  Delivery"]

\* C12: the serde tag and the parser round-trip for the five server kinds:
\* parsing the kind's tag yields the kind; for WebsocketConnectionUpdate
\* the tag "websocket_connection_update" and the parser's token
\* "websocket_connection_upgrade" are distinct, so parsing its tag fails.
C12_TagRoundTripButWebsocket ==
    pc = "parsed" =>
        /\ \A k \in EventKind :
              token = SerdeTag(k) =>
                  IF k = "WebsocketConnectionUpdate"
                  THEN /\ token = "websocket_connection_update"
                       /\ parsed.variant = "Err"
                  ELSE parsed = [variant |-> "Ok", ok |-> k]
        /\ parsed = [variant |-> "Ok", ok |-> "WebsocketConnectionUpdate"] =>
              /\ token = "websocket_connection_upgrade"
              /\ token # SerdeTag("WebsocketConnectionUpdate")

\* C12 witness: the websocket kind's own serde tag was refused.
C12_Witness ==
    /\ pc = "parsed"
    /\ token = "websocket_connection_update"
    /\ token = SerdeTag("WebsocketConnectionUpdate")
    /\ parsed.variant = "Err"

-----------------------------------------------------------------------------
(***************************************************************************)
(* Properties of the kind of an event (SpecKind)                           *)
(***************************************************************************)

\* The kind that has the name of an Event variant (GnssPositionReport is
\* spelled GNSSPositionReport among the kinds).
KindNamed(v) == IF v = "GnssPositionReport" THEN "GNSSPositionReport" ELSE v

\* C13: an event's discriminant round-trips through the bit mapping:
\* From<&Event> gives every variant the kind of the same name, two events
\* have the same bit exactly when they are the same variant, and the bit
\* lies inside all_bits() for every variant but WebsocketConnectionUpdate.
C13_DiscriminantRoundTrip ==
    /\ pc \in {"kind", "bit"} => kind = KindNamed(event.variant)
    /\ pc = "bit" =>
          /\ \A e \in Event :
                to_bit(EventKindFrom(e)) = bit <=> e.variant = event.variant
          /\ BitAnd(bit, all_bits) = bit
                <=> event.variant # "WebsocketConnectionUpdate"
          /\ BitAnd(bit, all_bits) \in {0, bit}

\* C13 witness: a delivery report event gave the kind DeliveryReport and
\* bit 2, which is inside all_bits().
C13_Witness ==
    /\ pc = "bit"
    /\ event.variant = "DeliveryReport"
    /\ kind = "DeliveryReport"
    /\ bit = 4
    /\ BitAnd(bit, all_bits) = 4

-----------------------------------------------------------------------------
(***************************************************************************)
(* Properties of message records (SpecMessage)                             *)
(***************************************************************************)

\* The fields of SmsMessage other than message_id.
OtherFields ==
    {"phone_number", "message_content", "message_reference", "is_outgoing",
     "status", "created_at", "completed_at"}

\* Two records agree on every field but message_id.
SameButId(a, b) ==
    /\ DOMAIN a = OtherFields \cup {"message_id"}
    /\ DOMAIN b = OtherFields \cup {"message_id"}
    /\ \A f \in OtherFields : a[f] = b[f]

\* C14: with_message_id is a copy with replacement: the returned message
\* has message_id = id and every other field equal to the original's, the
\* original is left unchanged, and applying it twice keeps only the last
\* id.
C14_CopyWithReplacement ==
    pc = "replaced" =>
        /\ result.message_id = last_id
        /\ SameButId(result, message)
        /\ SameButId(result, first)
        /\ calls = 1 => message = first
        /\ calls > 1 => SameButId(message, first)

\* C14 witness: a stored, delivered record with id 1 was given the id 2 and
\* then no id; the result has no id and the delivery data of the first.
C14_Witness ==
    /\ pc = "replaced"
    /\ calls = 2
    /\ first.message_id = [variant |-> "Some", some |-> 1]
    /\ first.completed_at = [variant |-> "Some", some |-> 1700000060]
    /\ message.message_id = [variant |-> "Some", some |-> 2]
    /\ last_id = [variant |-> "None"]
    /\ result.message_id = [variant |-> "None"]
    /\ result.completed_at = first.completed_at

\* The record a source message starts as, but for message_id.
StartsAs(m) ==
    /\ m.message_reference = [variant |-> "None"]
    /\ m.status = [variant |-> "None"]
    /\ m.created_at = [variant |-> "None"]
    /\ m.completed_at = [variant |-> "None"]
    /\ m.phone_number = source.msg.phone_number
    /\ m.message_content = source.msg.content
    /\ m.is_outgoing = (source.variant = "Outgoing")

\* C18: a message built from an outgoing or incoming message starts with
\* message_id, message_reference, status, created_at and completed_at all
\* None, phone_number and message_content copied and is_outgoing true
\* exactly for the outgoing source; after any sequence of with_message_id
\* calls only message_id differs (it is the last id given).
C18_LifecycleStages ==
    source.variant \in {"Outgoing", "Incoming"} =>
        /\ pc = "message" =>
              /\ message.message_id = [variant |-> "None"]
              /\ StartsAs(message)
        /\ pc = "replaced" =>
              /\ result.message_id = last_id
              /\ StartsAs(result)

\* C18 witness: an incoming message became a record, was given the id 1
\* and then the id 2, and is a received record with id 2 and no status.
C18_Witness ==
    /\ pc = "replaced"
    /\ source.variant = "Incoming"
    /\ calls = 2
    /\ message.message_id = [variant |-> "Some", some |-> 1]
    /\ result.message_id = [variant |-> "Some", some |-> 2]
    /\ result.is_outgoing = FALSE
    /\ result.status = [variant |-> "None"]

-----------------------------------------------------------------------------
(***************************************************************************)
(* Further properties of the status taxonomy (SpecStatus)                  *)
(***************************************************************************)

\* The coarse split of a byte: 0x00 Received, 0x01..0x1F Sent,
\* 0x20..0x3F Retrying, 0x40 and above Failed.
CoarseSplit(b) ==
    IF b = 0 THEN "Received"
    ELSE IF b \in 1..31 THEN "Sent"
    ELSE IF b \in 32..63 THEN "Retrying"
    ELSE "Failed"

C16_ReservedCompletedIsSuccess ==
    (FromByte /\ value \in 3..31) =>
        /\ status = [variant |-> "Unknown", val |-> value]
        /\ is_successful(status)
        /\ pc = "from_grouped" => group = "Received"

\* C16 witness: the reserved byte 0x03 was converted to Unknown(0x03), which
\* is not successful and was grouped as PermanentFailure.
C16_Witness ==
    /\ pc = "from_grouped"
    /\ value = 3
    /\ status = [variant |-> "Unknown", val |-> 3]
    /\ ~is_successful(status)
    /\ group = "PermanentFailure"

\* C17: the fallback variant re-classifies by its retained byte alone: for
\* every byte v, Unknown(v).to_status_group() equals
\* from(v).to_status_group(), also when v is the code of a named variant.
C17_UnknownReclassifiesByByte ==
    pc = "direct_grouped" => group = to_status_group(StatusFrom(value))

\* C17 witness: Unknown(0x00), constructed directly, was grouped as
\* PermanentFailure, where from(0x00) is grouped as Received.
C17_Witness ==
    /\ pc = "direct_grouped"
    /\ status = [variant |-> "Unknown", val |-> 0]
    /\ group = "PermanentFailure"
    /\ to_status_group(StatusFrom(0)) = "Received"

-----------------------------------------------------------------------------
(***************************************************************************)
(* Properties of the position report decoder (SpecGnss)                    *)
(***************************************************************************)

\* C19: PositionReport::try_from fails closed for every input length: it
\* returns Err for fewer than 15 fields, and for every list of 15 fields
\* or more it returns Ok with each value read from its fixed position and
\* never aborts with an out-of-range index.
C19_GnssFailsClosed ==
    pc = "reported" =>
        /\ report.variant # "Panic"
        /\ Len(fields) < 15 => report.variant = "Err"
        /\ Len(fields) >= 15 =>
              /\ report.variant = "Ok"
              /\ report.ok.run_status = (fields[1] = "1")
              /\ report.ok.fix_status = (fields[2] = "1")
              /\ report.ok.utc_time = fields[3]
              /\ report.ok.gps_in_view = ParseU8(fields[15])

\* C19 witness: a list of exactly 15 fields passed the length check and the
\* read of index 15 aborted.
C19_Witness ==
    /\ pc = "reported"
    /\ Len(fields) = 15
    /\ report = IndexPanic(15, 15)

=============================================================================
